---- MODULE Spec2Model ----
(***************************************************************************)
(* Model of ndbc-data-rust: the station metadata scanner                   *)
(* (NdbcData::fetch_station_metadata, src/src/lib.rs) and the standard met *)
(* feed parser (parse_std_met_to_df, library variant in src/src/lib.rs and *)
(* CLI variant in src/src/main.rs), and the run around them: main of the   *)
(* CLI and fetch_and_save_station of both variants.                        *)
(*                                                                         *)
(* Strings of the program are sequences of one-character strings, so that  *)
(* parsing, suffix tests and case conversion are computed, not assumed.    *)
(***************************************************************************)
EXTENDS Integers, Sequences, FiniteSets, TLC

VARIABLES
    \* ---- scanner: NdbcData and the locals of fetch_station_metadata ----
    station_meta,        \* self.station_meta: station id -> <<lat, lng>>
    scan_pc,             \* "idle" (no call running) | "loop" (inside the event loop)
    scan_result,         \* what the last finished call returned
    calls,               \* number of calls of fetch_station_metadata started
    open,                \* the XML reader's stack of open element names
    in_stations,         \* local in_stations
    current_station_id,  \* local current_station_id (None or an id)
    picked_lat_lon,      \* local picked_lat_lon (None or <<lat, lng>>)
    \* ---- history variables of the scanned document (not program state) ----
    cur,                 \* what the station element now open has contained so far
    closed,              \* the same record for a station element closed just now
    qualified,           \* ids of all closed station elements that had a met entry
    doc_qualifies,       \* the document of the running/last call has such a station
    picked_in,           \* where the entry that set picked_lat_lon lay: "none" | "station" | "outside"
    \* ---- parser: the argument and locals of parse_std_met_to_df ----
    variant,             \* "lib" (src/src/lib.rs) or "cli" (src/src/main.rs)
    text,                \* the feed: its lines, each split into tokens
    p_pc,                \* "seek" (header loop) | "rows" (data loop) | "done"
    pos,                 \* index of the line the `lines` iterator yields next
    header_cols,         \* local header_cols
    times,               \* local times
    cols,                \* local cols, one vector per name of `wanted`
    row,                 \* the time locals of the row decoded in this step
    result,              \* the value returned
    \* ---- history variables of the parse (not program state) ----
    first_row,           \* index of the first line the data loop reads
    row_line,            \* for each pushed time, the index of its line
    \* ---- run: main of the CLI, or a caller of the library's NdbcData ----
    run_pc,              \* "idle" | "start" | "meta" | "meta_loop" | "loop" | "done" | "failed"
    stations,            \* args.stations: the requested station ids, in order
    station_idx,         \* index of the station the loop handles next
    successes,           \* local successes of main
    failures,            \* local failures of main: <<station, reason>> pairs
    run_result,          \* what the run returned
    meta_events,         \* events the metadata check of the CLI has skipped
    fs_pc,               \* fetch_and_save_station: "idle" | "parsing"
    fs_result,           \* what the last call of fetch_and_save_station returned
    files,               \* out_dir: station id -> the table in <id>.parquet
    \* ---- history variables of the run (not program state) ----
    attempts,            \* the stations fetch_and_save_station was called for
    files_before,        \* out_dir when the running/last call started
    meta_ok,             \* the metadata check of the CLI has returned Ok
    created,             \* the stations whose file File::create has opened
    response             \* the response the running/last call received

scan_vars == <<station_meta, scan_pc, scan_result, calls, open, in_stations,
               current_station_id, picked_lat_lon, cur, closed, qualified,
               doc_qualifies, picked_in>>

parse_vars == <<variant, text, p_pc, pos, header_cols, times, cols, row, result,
                first_row, row_line>>

run_vars == <<run_pc, stations, station_idx, successes, failures, run_result,
              meta_events, fs_pc, fs_result, files, attempts, files_before,
              meta_ok, created, response>>

vars == <<scan_vars, parse_vars, run_vars>>

\* Option<T>: None is the empty sequence, Some(x) the one-element sequence
None == << >>
Some(x) == <<x>>
Unwrap(o) == o[1]

\* ------------------------------------------------------------------------
\* Strings and the standard-library conversions the program calls
\* ------------------------------------------------------------------------
Digits == {"0", "1", "2", "3", "4", "5", "6", "7", "8", "9"}

DigitVal(c) ==
    CASE c = "0" -> 0 [] c = "1" -> 1 [] c = "2" -> 2 [] c = "3" -> 3
      [] c = "4" -> 4 [] c = "5" -> 5 [] c = "6" -> 6 [] c = "7" -> 7
      [] c = "8" -> 8 [] c = "9" -> 9

RECURSIVE DigitsVal(_)
DigitsVal(s) ==
    IF Len(s) = 0 THEN 0
    ELSE 10 * DigitsVal(SubSeq(s, 1, Len(s) - 1)) + DigitVal(s[Len(s)])

AllDigits(s) == Len(s) > 0 /\ \A i \in 1..Len(s) : s[i] \in Digits

Tail1(s) == SubSeq(s, 2, Len(s))

\* the checked accumulation of integer parsing: the value of the digits, or
\* None as soon as it would exceed lim
RECURSIVE CheckedDigits(_, _)
CheckedDigits(s, lim) ==
    IF Len(s) = 0 THEN Some(0)
    ELSE LET p == CheckedDigits(SubSeq(s, 1, Len(s) - 1), lim)
             d == DigitVal(s[Len(s)])
         IN IF p = None THEN None
            ELSE IF Unwrap(p) > (lim - d) \div 10 THEN None
            ELSE Some(Unwrap(p) * 10 + d)

\* the same downwards, for a negative number: None below lim
RECURSIVE CheckedNegDigits(_, _)
CheckedNegDigits(s, lim) ==
    IF Len(s) = 0 THEN Some(0)
    ELSE LET p == CheckedNegDigits(SubSeq(s, 1, Len(s) - 1), lim)
             d == DigitVal(s[Len(s)])
         IN IF p = None THEN None
            ELSE IF Unwrap(p) < (lim + d + 9) \div 10 THEN None
            ELSE Some(Unwrap(p) * 10 - d)

\* str::parse::<i32>(): optional sign, decimal digits, value in the i32 range
ParseI32(s) ==
    LET neg == Len(s) > 0 /\ s[1] = "-"
        body == IF Len(s) > 0 /\ s[1] \in {"+", "-"} THEN Tail1(s) ELSE s
    IN IF ~AllDigits(body) THEN None
       ELSE IF neg THEN CheckedNegDigits(body, (0 - 2147483647) - 1)
       ELSE CheckedDigits(body, 2147483647)

\* str::parse::<u8>(): optional plus sign, decimal digits, value in 0..255
ParseU8(s) ==
    LET body == IF Len(s) > 0 /\ s[1] = "+" THEN Tail1(s) ELSE s
    IN IF ~AllDigits(body) THEN None
       ELSE CheckedDigits(body, 255)

\* char::to_lowercase / to_uppercase on the letters the program meets
Upper == <<"A","B","C","D","E","F","G","H","I","J","K","L","M",
           "N","O","P","Q","R","S","T","U","V","W","X","Y","Z">>
Lower == <<"a","b","c","d","e","f","g","h","i","j","k","l","m",
           "n","o","p","q","r","s","t","u","v","w","x","y","z">>

LowerChar(c) ==
    IF \E i \in 1..Len(Upper) : Upper[i] = c
    THEN Lower[CHOOSE i \in 1..Len(Upper) : Upper[i] = c]
    ELSE c

\* str::to_lowercase()
ToLowercase(s) == [i \in 1..Len(s) |-> LowerChar(s[i])]

\* an f64 that is a decimal number m / 10^e (e fraction digits, no trailing
\* zero kept), or one of the special values
RECURSIVE Normal(_, _)
Normal(m, e) ==
    IF e > 0 /\ m % 10 = 0 THEN Normal(m \div 10, e - 1)
    ELSE [kind |-> "num", m |-> m, e |-> e]

F64(m, e) == Normal(m, e)
NaN == [kind |-> "nan", m |-> 0, e |-> 0]
Inf(neg) == [kind |-> "inf", m |-> IF neg THEN 0 - 1 ELSE 1, e |-> 0]

DotAt(s) == IF \E i \in 1..Len(s) : s[i] = "."
            THEN CHOOSE i \in 1..Len(s) : s[i] = "." /\ \A j \in 1..(i - 1) : s[j] # "."
            ELSE 0

\* str::parse::<f64>(): optional sign, then "nan", "inf", "infinity" in any
\* case, or decimal digits with an optional point (exponents are not used by
\* the inputs of this model)
ParseF64(s) ==
    LET neg == Len(s) > 0 /\ s[1] = "-"
        body == IF Len(s) > 0 /\ s[1] \in {"+", "-"} THEN Tail1(s) ELSE s
        low == ToLowercase(body)
        d == DotAt(body)
        ip == IF d = 0 THEN body ELSE SubSeq(body, 1, d - 1)
        fp == IF d = 0 THEN << >> ELSE SubSeq(body, d + 1, Len(body))
        okNum == /\ Len(ip) + Len(fp) > 0
                 /\ \A i \in 1..Len(ip) : ip[i] \in Digits
                 /\ \A i \in 1..Len(fp) : fp[i] \in Digits
        mag == DigitsVal(ip \o fp)
    IN IF low = <<"n", "a", "n">> THEN Some(NaN)
       ELSE IF low = <<"i", "n", "f">> \/ low = <<"i","n","f","i","n","i","t","y">>
            THEN Some(Inf(neg))
       ELSE IF okNum THEN Some(F64(IF neg THEN 0 - mag ELSE mag, Len(fp)))
       ELSE None

\* ------------------------------------------------------------------------
\* Bounds of the scanner's inputs
\* ------------------------------------------------------------------------
MaxCalls == 2

StationIds == {"41001", "46042"}
\* attribute values as the document gives them: None when the attribute is absent
MetVals == {None, Some("y"), Some("n")}
StopVals == {None, Some(""), Some("2019-05-01")}
LatLngVals == {<<Some(<<"1">>), Some(<<"2">>)>>,
               <<Some(<<"3">>), Some(<<"4">>)>>,
               <<Some(<<"5">>), Some(<<"6">>)>>,
               <<None, Some(<<"x">>)>>}
HistoryAttrs == [met : MetVals, stop : StopVals, ll : LatLngVals]

\* ------------------------------------------------------------------------
\* Scanner: pieces of the history branch
\* ------------------------------------------------------------------------
\* lib.rs:74-75  lat = val.parse().ok(), None when the attribute is absent
AttrF64(raw) == IF raw = None THEN None ELSE ParseF64(Unwrap(raw))

\* a comparison that takes any present met flag for "y"
MetYesAnyFlag(met) == met # None

\* lib.rs:79  met.as_deref() == Some("y")
MetYes(met) == met = Some("y")

\* lib.rs:80  stop.as_deref().map(|s| s.is_empty()).unwrap_or(true)
IsCurrent(stop) == IF stop = None THEN TRUE ELSE Unwrap(stop) = ""

\* lib.rs:81-88  the candidate after one history open tag
PickAfterHistory(picked, a) ==
    LET lat == AttrF64(a.ll[1])
        lng == AttrF64(a.ll[2])
    IN IF MetYes(a.met)
       THEN IF lat # None /\ lng # None
            THEN IF picked = None \/ IsCurrent(a.stop)
                 THEN Some(<<Unwrap(lat), Unwrap(lng)>>)
                 ELSE picked
            ELSE picked
       ELSE picked

\* lib.rs:93-95  the mapping after a station close tag
MetaAfterStationEnd(meta, id, ll) ==
    IF id # None /\ ll # None
    THEN [meta EXCEPT ![Unwrap(id)] = ll]
    ELSE meta

\* the keys of the HashMap: station_meta[k] = None stands for "no entry"
Keys(meta) == {k \in DOMAIN meta : meta[k] # None}

\* lib.rs:107-111  the value returned once the loop is left
ReturnValue(meta) ==
    IF Keys(meta) = {} THEN "ErrNoStations" ELSE "Ok"

\* ------------------------------------------------------------------------
\* History variables: what the document says, read off the events alone
\* ------------------------------------------------------------------------
NoStation ==
    [open |-> FALSE, id |-> None, entries |-> FALSE, firstMet |-> None,
     lastActive |-> None]

\* a history entry that indicates met sensing and carries a numeric position
EntryPosition(a) ==
    IF a.ll[1] # None /\ a.ll[2] # None
       /\ ParseF64(a.ll[1][1]) # None /\ ParseF64(a.ll[2][1]) # None
    THEN Some(<<ParseF64(a.ll[1][1])[1], ParseF64(a.ll[2][1])[1]>>)
    ELSE None
EntryQualifies(a) == a.met = <<"y">> /\ EntryPosition(a) # None
EntryActive(a) == a.stop = << >> \/ a.stop = <<"">>

\* the entry sets picked_lat_lon (lib.rs:79-87)
EntryPicks(picked, a) ==
    /\ a.met = <<"y">>
    /\ EntryPosition(a) # None
    /\ (picked = None \/ EntryActive(a))

NewStation(id) ==
    [open |-> TRUE, id |-> id, entries |-> FALSE, firstMet |-> None,
     lastActive |-> None]

WithEntry(s, a) ==
    IF ~s.open THEN s
    ELSE [s EXCEPT !.entries = TRUE,
                   !.firstMet = IF @ = None /\ EntryQualifies(a)
                                THEN EntryPosition(a) ELSE @,
                   !.lastActive = IF EntryQualifies(a) /\ EntryActive(a)
                                  THEN EntryPosition(a) ELSE @]

Top == IF Len(open) = 0 THEN "" ELSE open[Len(open)]
Push(n) == Append(open, n)
Pop == SubSeq(open, 1, Len(open) - 1)

\* ------------------------------------------------------------------------
\* Scanner actions: one call start, then one action per event of the loop
\* ------------------------------------------------------------------------
ScanInit ==
    /\ station_meta = [k \in StationIds |-> None]     \* lib.rs:31 HashMap::new()
    /\ scan_pc = "idle"
    /\ scan_result = "none"
    /\ calls = 0
    /\ open = << >>
    /\ in_stations = FALSE
    /\ current_station_id = None
    /\ picked_lat_lon = None
    /\ cur = NoStation
    /\ closed = NoStation
    /\ qualified = {}
    /\ doc_qualifies = FALSE
    /\ picked_in = "none"

\* lib.rs:35-46  a call starts: fresh reader and locals, self.station_meta kept
FetchStart ==
    /\ scan_pc = "idle"
    /\ calls < MaxCalls
    /\ calls' = calls + 1
    /\ scan_pc' = "loop"
    /\ scan_result' = "none"
    /\ open' = << >>
    /\ in_stations' = FALSE
    /\ current_station_id' = None
    /\ picked_lat_lon' = None
    /\ cur' = NoStation
    /\ closed' = NoStation
    /\ doc_qualifies' = FALSE
    /\ picked_in' = "none"
    /\ UNCHANGED <<station_meta, qualified>>
    /\ UNCHANGED <<parse_vars, run_vars>>

\* lib.rs:52-53  <stations>
StartStations ==
    /\ scan_pc = "loop"
    /\ open = << >>
    /\ open' = Push("stations")
    /\ in_stations' = TRUE
    /\ UNCHANGED <<station_meta, scan_pc, scan_result, calls, current_station_id,
                   picked_lat_lon, cur, qualified, doc_qualifies,
                   picked_in>>
    /\ closed' = NoStation
    /\ UNCHANGED <<parse_vars, run_vars>>

\* StartStation without `picked_lat_lon = None`
StartStationKeepsPicked ==
    /\ scan_pc = "loop"
    /\ Top \in {"", "stations"}
    /\ \E id \in {None} \cup {Some(k) : k \in StationIds} :
        /\ open' = Push("station")
        /\ IF in_stations
           THEN current_station_id' = id
           ELSE UNCHANGED current_station_id
        /\ cur' = IF Top = "stations" THEN NewStation(id) ELSE NoStation
    /\ UNCHANGED <<station_meta, scan_pc, scan_result, calls, in_stations, qualified,
                   doc_qualifies, picked_lat_lon, picked_in>>
    /\ closed' = NoStation
    /\ UNCHANGED <<parse_vars, run_vars>>

\* lib.rs:54-61  <station id=...> (the id attribute may be missing)
StartStation ==
    /\ scan_pc = "loop"
    /\ Top \in {"", "stations"}
    /\ \E id \in {None} \cup {Some(k) : k \in StationIds} :
        /\ open' = Push("station")
        /\ IF in_stations
           THEN /\ current_station_id' = id /\ picked_lat_lon' = None
                /\ picked_in' = "none"
           ELSE UNCHANGED <<current_station_id, picked_lat_lon, picked_in>>
        /\ cur' = IF Top = "stations" THEN NewStation(id) ELSE NoStation
    /\ UNCHANGED <<station_meta, scan_pc, scan_result, calls, in_stations, qualified, doc_qualifies>>
    /\ closed' = NoStation
    /\ UNCHANGED <<parse_vars, run_vars>>

\* lib.rs:62-89  <history ...> delivered as an open tag
StartHistory ==
    /\ scan_pc = "loop"
    /\ Top \in {"", "stations", "station"}
    /\ \E a \in HistoryAttrs :
        /\ open' = Push("history")
        /\ picked_lat_lon' = IF in_stations
                             THEN PickAfterHistory(picked_lat_lon, a)
                             ELSE picked_lat_lon
        /\ cur' = IF Top = "station" THEN WithEntry(cur, a) ELSE cur
        /\ picked_in' = IF in_stations /\ EntryPicks(picked_lat_lon, a)
                         THEN (IF Top = "station" THEN "station" ELSE "outside")
                         ELSE picked_in
    /\ UNCHANGED <<station_meta, scan_pc, scan_result, calls, in_stations,
                   current_station_id, qualified, doc_qualifies>>
    /\ closed' = NoStation
    /\ UNCHANGED <<parse_vars, run_vars>>

\* lib.rs:49-50,103  <history .../>: the reader delivers Event::Empty, which
\* only the catch-all arm `_ => {}` matches
EmptyHistory ==
    /\ scan_pc = "loop"
    /\ Top \in {"", "stations", "station"}
    /\ \E a \in HistoryAttrs :
        cur' = IF Top = "station" THEN WithEntry(cur, a) ELSE cur
    /\ UNCHANGED <<station_meta, scan_pc, scan_result, calls, open, in_stations,
                   current_station_id, picked_lat_lon, qualified,
                   doc_qualifies,
                   picked_in>>
    /\ closed' = NoStation
    /\ UNCHANGED <<parse_vars, run_vars>>

\* lib.rs:91-100  </history>: neither branch of the End arm matches
EndHistory ==
    /\ scan_pc = "loop"
    /\ Top = "history"
    /\ open' = Pop
    /\ UNCHANGED <<station_meta, scan_pc, scan_result, calls, in_stations,
                   current_station_id, picked_lat_lon, cur, qualified,
                   doc_qualifies,
                   picked_in>>
    /\ closed' = NoStation
    /\ UNCHANGED <<parse_vars, run_vars>>

\* lib.rs:92-95  </station>
EndStation ==
    /\ scan_pc = "loop"
    /\ Top = "station"
    /\ open' = Pop
    /\ station_meta' = MetaAfterStationEnd(station_meta, current_station_id,
                                           picked_lat_lon)
    /\ current_station_id' = None       \* .take()
    /\ picked_lat_lon' = None           \* .take()
    /\ picked_in' = "none"
    /\ cur' = NoStation
    /\ closed' = cur
    /\ qualified' = IF cur.open /\ cur.id # None /\ cur.firstMet # None
                    THEN qualified \cup {cur.id[1]} ELSE qualified
    /\ doc_qualifies' = (doc_qualifies
                         \/ (cur.open /\ cur.id # None /\ cur.firstMet # None))
    /\ UNCHANGED <<scan_pc, scan_result, calls, in_stations>>
    /\ UNCHANGED <<parse_vars, run_vars>>

\* EndStations without the `break`
EndStationsNoBreak ==
    /\ scan_pc = "loop"
    /\ Top = "stations"
    /\ open' = Pop
    /\ UNCHANGED <<station_meta, scan_pc, scan_result, calls, in_stations,
                   current_station_id, picked_lat_lon, cur, qualified,
                   doc_qualifies,
                   picked_in>>
    /\ closed' = NoStation
    /\ UNCHANGED <<parse_vars, run_vars>>

\* lib.rs:96-99,107-111  </stations>: leave the loop and return
EndStations ==
    /\ scan_pc = "loop"
    /\ Top = "stations"
    /\ open' = Pop
    /\ scan_pc' = "idle"
    /\ scan_result' = ReturnValue(station_meta)
    /\ UNCHANGED <<station_meta, calls, in_stations, current_station_id,
                   picked_lat_lon, cur, qualified, doc_qualifies,
                   picked_in>>
    /\ closed' = NoStation
    /\ UNCHANGED <<parse_vars, run_vars>>

\* lib.rs:101,107-111  end of input, whatever is still open
ReadEof ==
    /\ scan_pc = "loop"
    /\ scan_pc' = "idle"
    /\ scan_result' = ReturnValue(station_meta)
    /\ UNCHANGED <<station_meta, calls, open, in_stations, current_station_id,
                   picked_lat_lon, cur, qualified, doc_qualifies,
                   picked_in>>
    /\ closed' = NoStation
    /\ UNCHANGED <<parse_vars, run_vars>>

\* lib.rs:102  unparsable markup (a mismatched close tag included)
ReadErr ==
    /\ scan_pc = "loop"
    /\ scan_pc' = "idle"
    /\ scan_result' = "ErrParse"
    /\ UNCHANGED <<station_meta, calls, open, in_stations, current_station_id,
                   picked_lat_lon, cur, qualified, doc_qualifies,
                   picked_in>>
    /\ closed' = NoStation
    /\ UNCHANGED <<parse_vars, run_vars>>

ScanNext ==
    \/ FetchStart
    \/ StartStations
    \/ StartStation
    \/ StartHistory
    \/ EmptyHistory
    \/ EndHistory
    \/ EndStation
    \/ EndStations
    \/ ReadEof
    \/ ReadErr


\* ------------------------------------------------------------------------
\* Parser: the feeds of the model
\* ------------------------------------------------------------------------
MaxLines == 3

Variants == {"lib", "cli"}

\* a line is what trim/starts_with('#')/split_whitespace see of it: whether
\* its first non-blank character is '#', and its tokens (leading '#' removed)
LineHeader ==
    [hash |-> TRUE, toks |-> <<<<"Y", "Y">>, <<"M", "M">>, <<"D", "D">>, <<"h", "h">>, <<"m", "m">>, <<"W", "D", "I", "R">>, <<"W", "S", "P", "D">>>>]
LineHeaderTide ==
    [hash |-> TRUE, toks |-> <<<<"Y", "Y">>, <<"M", "M">>, <<"D", "D">>, <<"h", "h">>, <<"m", "m">>, <<"T", "I", "D", "E">>, <<"W", "D", "I", "R">>>>]
LineUnits ==
    [hash |-> TRUE, toks |-> <<<<"y", "r">>, <<"m", "o">>, <<"d", "y">>, <<"h", "r">>, <<"m", "n">>, <<"d", "e", "g", "T">>, <<"m", "/", "s">>>>]
LineBlank == [hash |-> FALSE, toks |-> <<>>]
RowExample ==
    [hash |-> FALSE, toks |-> <<<<"2", "3">>, <<"0", "1">>, <<"1", "5">>, <<"0", "6">>, <<"3", "0">>, <<"1", "8", "0">>, <<"1", "2", ".", "3">>>>]
RowLeapDay ==
    [hash |-> FALSE, toks |-> <<<<"2", "0", "2", "4">>, <<"0", "2">>, <<"2", "9">>, <<"2", "3">>, <<"5", "9">>, <<"M", "M">>, <<"N", "a", "N">>>>]
RowBeforeEpoch ==
    [hash |-> FALSE, toks |-> <<<<"1", "9", "6", "9">>, <<"1", "2">>, <<"3", "1">>, <<"2", "3">>, <<"5", "9">>, <<"2", "7", "0">>, <<"0", ".", "5">>>>]
RowMonth13 ==
    [hash |-> FALSE, toks |-> <<<<"9", "9">>, <<"1", "3">>, <<"1", "5">>, <<"0", "6">>, <<"3", "0">>, <<"9", "0">>, <<"1", ".", "0">>>>]
RowApril31 ==
    [hash |-> FALSE, toks |-> <<<<"1", "0", "0", "0">>, <<"0", "4">>, <<"3", "1">>, <<"0", "6">>, <<"3", "0">>, <<"9", "0">>, <<"1", ".", "0">>>>]
RowHour24 ==
    [hash |-> FALSE, toks |-> <<<<"0", "0">>, <<"0", "1">>, <<"1", "5">>, <<"2", "4">>, <<"3", "0">>, <<"9", "0">>, <<"1", ".", "0">>>>]
RowMinute60 ==
    [hash |-> FALSE, toks |-> <<<<"9", "9", "9", "9">>, <<"1", "2">>, <<"3", "1">>, <<"2", "3">>, <<"6", "0">>, <<"9", "0">>, <<"1", ".", "0">>>>]
RowShort ==
    [hash |-> FALSE, toks |-> <<<<"2", "3">>, <<"0", "1">>, <<"1", "5">>, <<"0", "6">>>>]
RowHugeYear ==
    [hash |-> FALSE, toks |-> <<<<"2", "1", "4", "7", "4", "8", "3", "6", "4", "8">>, <<"0", "1">>, <<"1", "5">>, <<"0", "6">>, <<"3", "0">>, <<"M", "M">>, <<"5">>>>]
RowNames ==
    [hash |-> FALSE, toks |-> <<<<"Y", "Y">>, <<"M", "M">>, <<"D", "D">>, <<"h", "h">>, <<"m", "m">>, <<"W", "D", "I", "R">>, <<"W", "S", "P", "D">>>>]

LineVocab == {LineHeader, LineHeaderTide, LineUnits, LineBlank,
              RowExample, RowLeapDay, RowMonth13, RowApril31,
              RowHour24, RowMinute60, RowShort, RowHugeYear,
              RowNames,
              RowBeforeEpoch}

Feeds == UNION {[1..n -> LineVocab] : n \in 0..MaxLines}

\* ------------------------------------------------------------------------
\* Parser: header discovery
\* ------------------------------------------------------------------------
sYY == <<"Y", "Y">>
sMM == <<"M", "M">>
sDD == <<"D", "D">>
sNaN == <<"N", "a", "N">>

\* str::ends_with
EndsWith(s, suffix) ==
    /\ Len(s) >= Len(suffix)
    /\ SubSeq(s, Len(s) - Len(suffix) + 1, Len(s)) = suffix

\* a header test that forgets to ask for the comment marker
IsHeaderLineAnyLine(line) ==
    /\ Len(line.toks) >= 5
    /\ EndsWith(line.toks[1], sYY)
    /\ line.toks[2] = sMM
    /\ line.toks[3] = sDD

\* lib.rs:200-205, main.rs:153-158  the line is the names header
IsHeaderLine(line) ==
    /\ line.hash
    /\ Len(line.toks) >= 5
    /\ EndsWith(line.toks[1], sYY)
    /\ line.toks[2] = sMM
    /\ line.toks[3] = sDD

\* the iterator position when the line after the header is always consumed
AfterHeaderSkipsAny(txt, i) == i + 2

\* lib.rs:207-211, main.rs:160-162  the iterator position after the header at
\* index i: one more line is consumed if it is a comment line
AfterHeader(txt, i) ==
    IF i + 1 <= Len(txt) /\ txt[i + 1].hash THEN i + 2 ELSE i + 1

\* a column index that counts the header tokens from 1
ColIdxOneBased(hdr, name) ==
    IF \E i \in 1..Len(hdr) : hdr[i] = name
    THEN Some(CHOOSE i \in 1..Len(hdr) :
                  hdr[i] = name /\ \A j \in (i + 1)..Len(hdr) : hdr[j] # name)
    ELSE None

\* lib.rs:223-226, main.rs:175-178  col_idx.get(name): the 0-based index of the
\* last header token equal to name (a later insert overwrites an earlier one)
ColIdx(hdr, name) ==
    IF \E i \in 1..Len(hdr) : hdr[i] = name
    THEN Some((CHOOSE i \in 1..Len(hdr) :
                  hdr[i] = name /\ \A j \in (i + 1)..Len(hdr) : hdr[j] # name) - 1)
    ELSE None

\* a list of the recognized fields with two names exchanged
wantedSwapped ==
    <<<<"W", "S", "P", "D">>, <<"W", "D", "I", "R">>, <<"G", "S", "T">>, <<"W", "V", "H", "T">>,
      <<"D", "P", "D">>, <<"A", "P", "D">>, <<"M", "W", "D">>, <<"P", "R", "E", "S">>,
      <<"A", "T", "M", "P">>, <<"W", "T", "M", "P">>, <<"D", "E", "W", "P">>, <<"V", "I", "S">>,
      <<"P", "T", "D", "Y">>, <<"T", "I", "D", "E">>>>

\* lib.rs:229-231, main.rs:181-183
wanted ==
    <<<<"W", "D", "I", "R">>, <<"W", "S", "P", "D">>, <<"G", "S", "T">>, <<"W", "V", "H", "T">>,
      <<"D", "P", "D">>, <<"A", "P", "D">>, <<"M", "W", "D">>, <<"P", "R", "E", "S">>,
      <<"A", "T", "M", "P">>, <<"W", "T", "M", "P">>, <<"D", "E", "W", "P">>, <<"V", "I", "S">>,
      <<"P", "T", "D", "Y">>, <<"T", "I", "D", "E">>>>

\* toks.get(idx) for a 0-based idx
TokGet(toks, idx) == IF idx + 1 <= Len(toks) THEN Some(toks[idx + 1]) ELSE None

\* ------------------------------------------------------------------------
\* Parser: time decoding (the calls into the `time` crate by what they do)
\* ------------------------------------------------------------------------
UnwrapOr(o, dflt) == IF o = None THEN dflt ELSE Unwrap(o)

\* a two-digit rule that takes every value below 100 for the 1900s
DecodeYear1900(y) == IF y >= 1000 THEN y ELSE 1900 + y

\* lib.rs:256, main.rs:200
DecodeYear(y) == IF y >= 1000 THEN y ELSE 2000 + y

\* time locals with day and month read from each other's token
TimeLocalsSwapped(toks) ==
    [year |-> DecodeYear(UnwrapOr(ParseI32(toks[1]), 0)),
     month |-> UnwrapOr(ParseU8(toks[3]), 1),
     day |-> UnwrapOr(ParseU8(toks[2]), 1),
     hour |-> UnwrapOr(ParseU8(toks[4]), 0),
     minute |-> UnwrapOr(ParseU8(toks[5]), 0)]

\* lib.rs:254-260, main.rs:198-204  (toks has at least 5 tokens)
TimeLocals(toks) ==
    [year |-> DecodeYear(UnwrapOr(ParseI32(toks[1]), 0)),
     month |-> UnwrapOr(ParseU8(toks[2]), 1),
     day |-> UnwrapOr(ParseU8(toks[3]), 1),
     hour |-> UnwrapOr(ParseU8(toks[4]), 0),
     minute |-> UnwrapOr(ParseU8(toks[5]), 0)]

\* time::Month::try_from(u8).unwrap_or(Month::January)
MonthOrJanuary(m) == IF m >= 1 /\ m <= 12 THEN m ELSE 1

IsLeapYear(y) == (y % 4 = 0) /\ ((y % 100 # 0) \/ (y % 400 = 0))

DaysInMonth(y, m) ==
    IF m = 2 THEN (IF IsLeapYear(y) THEN 29 ELSE 28)
    ELSE IF m \in {4, 6, 9, 11} THEN 30 ELSE 31

\* time::Date::from_calendar_date(year, month, day).ok(): years -9999..9999,
\* day within the month; the date as <<year, month, day>>
FromCalendarDate(y, m, d) ==
    IF y >= 0 - 9999 /\ y <= 9999 /\ d >= 1 /\ d <= DaysInMonth(y, m)
    THEN Some(<<y, m, d>>)
    ELSE None

\* time::Time::from_hms(hour, minute, 0).ok(); the time as <<hour, minute>>
FromHms(h, mi) == IF h <= 23 /\ mi <= 59 THEN Some(<<h, mi>>) ELSE None

\* days from 1970-01-01 to the date, proleptic Gregorian calendar
DaysFromCivil(date) ==
    LET y == IF date[2] <= 2 THEN date[1] - 1 ELSE date[1]
        era == y \div 400
        yoe == y - era * 400
        mp == IF date[2] > 2 THEN date[2] - 3 ELSE date[2] + 9
        doy == (153 * mp + 2) \div 5 + date[3] - 1
        doe == yoe * 365 + yoe \div 4 - yoe \div 100 + doy
    IN era * 146097 + doe - 719468

\* lib.rs:265-267, main.rs:208-210  dt.unix_timestamp() * 1000 + millisecond.
\* The i64 number of milliseconds days * 86400000 + ms is kept as the pair
\* of its day count and its milliseconds within the day (the product does
\* not fit the 32-bit integers of TLC); seconds and milliseconds of
\* the time are 0.
TimestampMs(date, tm) ==
    [days |-> DaysFromCivil(date),
     ms |-> (tm[1] * 3600 + tm[2] * 60 + 0) * 1000 + 0]

\* lib.rs:262-268 (fallback date and time), main.rs:205-215 (skip the row):
\* Some(ms) when a time is pushed, None when the row is skipped
RowTime(v, t) ==
    LET date == FromCalendarDate(t.year, MonthOrJanuary(t.month), t.day)
        tm == FromHms(t.hour, t.minute)
    IN IF v = "lib"
       THEN Some(TimestampMs(UnwrapOr(date, <<2000, 1, 1>>), UnwrapOr(tm, <<0, 0>>)))
       ELSE IF date # None /\ tm # None
            THEN Some(TimestampMs(Unwrap(date), Unwrap(tm)))
            ELSE None

\* ------------------------------------------------------------------------
\* Parser: field decoding
\* ------------------------------------------------------------------------
\* a library decoding that knows only the "MM" placeholder
FieldValueOnlyMM(v, hdr, toks, w) ==
    LET idx == ColIdx(hdr, w)
        tok == IF idx = None THEN None ELSE TokGet(toks, Unwrap(idx))
    IN IF tok = None THEN None
       ELSE IF Unwrap(tok) = sMM THEN None
       ELSE ParseF64(Unwrap(tok))

\* lib.rs:271-280, main.rs:218-223  the value pushed for field w
FieldValue(v, hdr, toks, w) ==
    LET idx == ColIdx(hdr, w)
    IN IF v = "lib"
       THEN IF idx = None THEN None
            ELSE LET tok == TokGet(toks, Unwrap(idx))
                 IN IF tok = None THEN None
                    ELSE IF Unwrap(tok) = sMM \/ Unwrap(tok) = sNaN THEN None
                    ELSE ParseF64(Unwrap(tok))
       ELSE IF idx = None THEN None
            ELSE LET x == UnwrapOr(TokGet(toks, Unwrap(idx)), sMM)
                 IN IF x = sMM THEN None ELSE ParseF64(x)

\* pushes that leave out the fields the header does not name
PushFieldsNamedOnly(v, hdr, toks, cs) ==
    [j \in 1..Len(wanted) |->
        IF ColIdx(hdr, wanted[j]) = None THEN cs[j]
        ELSE Append(cs[j], FieldValue(v, hdr, toks, wanted[j]))]

\* lib.rs:270-281, main.rs:217-224  cols after the pushes of one row
PushFields(v, hdr, toks, cs) ==
    [j \in 1..Len(wanted) |-> Append(cs[j], FieldValue(v, hdr, toks, wanted[j]))]

\* lib.rs:236, main.rs:187  cols with an empty vector per wanted name
EmptyCols == [j \in 1..Len(wanted) |-> << >>]

\* ------------------------------------------------------------------------
\* Parser: the returned table
\* ------------------------------------------------------------------------
sTimeMs == <<"t", "i", "m", "e", "_", "m", "s">>

\* lib.rs:219, main.rs:170  DataFrame::empty()
EmptyFrame == [status |-> "Ok", names |-> << >>, time |-> << >>, data |-> << >>]

ErrFrame == [status |-> "Err", names |-> << >>, time |-> << >>, data |-> << >>]

\* lib.rs:290 (name as is), main.rs:236 (name lowercased)
SeriesName(v, w) == IF v = "lib" THEN w ELSE ToLowercase(w)

\* lib.rs:285-295, main.rs:228-241  DataFrame::new fails when the series differ
\* in length
BuildFrame(v, ts, cs) ==
    IF \A j \in 1..Len(wanted) : Len(cs[j]) = Len(ts)
    THEN [status |-> "Ok",
          names |-> <<sTimeMs>> \o [j \in 1..Len(wanted) |-> SeriesName(v, wanted[j])],
          time |-> ts,
          data |-> cs]
    ELSE ErrFrame

NoRow == [line |-> 0, year |-> 0, month |-> 0, day |-> 0, hour |-> 0, minute |-> 0]

\* ------------------------------------------------------------------------
\* Parser actions: one per iteration of the two loops
\* ------------------------------------------------------------------------
ParseInit ==
    /\ variant \in Variants
    /\ text \in Feeds
    /\ p_pc = "seek"
    /\ pos = 1
    /\ header_cols = << >>
    /\ times = << >>
    /\ cols = EmptyCols
    /\ row = NoRow
    /\ result = [status |-> "none", names |-> << >>, time |-> << >>, data |-> << >>]
    /\ first_row = 0
    /\ row_line = << >>

\* lib.rs:199-215, main.rs:152-166  a line that is not the header
SeekSkip ==
    /\ p_pc = "seek"
    /\ pos <= Len(text)
    /\ ~IsHeaderLine(text[pos])
    /\ pos' = pos + 1
    /\ UNCHANGED <<variant, text, p_pc, header_cols, times, cols, row, result,
                   first_row, row_line>>
    /\ UNCHANGED <<scan_vars, run_vars>>

\* lib.rs:205-213,218-237, main.rs:158-164,169-187  the header line
SeekHeader ==
    /\ p_pc = "seek"
    /\ pos <= Len(text)
    /\ IsHeaderLine(text[pos])
    /\ header_cols' = text[pos].toks
    /\ pos' = AfterHeader(text, pos)
    /\ first_row' = AfterHeader(text, pos)
    /\ p_pc' = "rows"
    /\ UNCHANGED <<variant, text, times, cols, row, result, row_line>>
    /\ UNCHANGED <<scan_vars, run_vars>>

\* lib.rs:199,218-220, main.rs:152,169-171  no line left and no header found
SeekEnd ==
    /\ p_pc = "seek"
    /\ pos > Len(text)
    /\ p_pc' = "done"
    /\ result' = EmptyFrame
    /\ UNCHANGED <<variant, text, pos, header_cols, times, cols, row, first_row,
                   row_line>>
    /\ UNCHANGED <<scan_vars, run_vars>>

\* lib.rs:241-244, main.rs:191-192  a blank line
RowBlank ==
    /\ p_pc = "rows"
    /\ pos <= Len(text)
    /\ ~text[pos].hash /\ Len(text[pos].toks) = 0
    /\ pos' = pos + 1
    /\ row' = NoRow
    /\ UNCHANGED <<variant, text, p_pc, header_cols, times, cols, result,
                   first_row, row_line>>
    /\ UNCHANGED <<scan_vars, run_vars>>

\* RowComment with `continue` in place of `break`
RowCommentContinues ==
    /\ p_pc = "rows"
    /\ pos <= Len(text)
    /\ text[pos].hash
    /\ pos' = pos + 1
    /\ row' = NoRow
    /\ UNCHANGED <<variant, text, p_pc, header_cols, times, cols, result,
                   first_row, row_line>>
    /\ UNCHANGED <<scan_vars, run_vars>>

\* lib.rs:245-247,284-295, main.rs:193,227-241  a comment line ends the loop
RowComment ==
    /\ p_pc = "rows"
    /\ pos <= Len(text)
    /\ text[pos].hash
    /\ pos' = pos + 1
    /\ row' = NoRow
    /\ p_pc' = "done"
    /\ result' = BuildFrame(variant, times, cols)
    /\ UNCHANGED <<variant, text, header_cols, times, cols, first_row, row_line>>
    /\ UNCHANGED <<scan_vars, run_vars>>

\* RowShortLine with `break` in place of `continue`
RowShortLineBreaks ==
    /\ p_pc = "rows"
    /\ pos <= Len(text)
    /\ ~text[pos].hash
    /\ Len(text[pos].toks) > 0 /\ Len(text[pos].toks) < 5
    /\ pos' = pos + 1
    /\ row' = NoRow
    /\ p_pc' = "done"
    /\ result' = BuildFrame(variant, times, cols)
    /\ UNCHANGED <<variant, text, header_cols, times, cols, first_row, row_line>>
    /\ UNCHANGED <<scan_vars, run_vars>>

\* lib.rs:248-251, main.rs:194-195  fewer than five tokens
RowShortLine ==
    /\ p_pc = "rows"
    /\ pos <= Len(text)
    /\ ~text[pos].hash
    /\ Len(text[pos].toks) > 0 /\ Len(text[pos].toks) < 5
    /\ pos' = pos + 1
    /\ row' = NoRow
    /\ UNCHANGED <<variant, text, p_pc, header_cols, times, cols, result,
                   first_row, row_line>>
    /\ UNCHANGED <<scan_vars, run_vars>>

\* lib.rs:253-281, main.rs:197-224  a data row
RowDecode ==
    /\ p_pc = "rows"
    /\ pos <= Len(text)
    /\ ~text[pos].hash
    /\ Len(text[pos].toks) >= 5
    /\ LET toks == text[pos].toks
           t == TimeLocals(toks)
           ms == RowTime(variant, t)
       IN /\ row' = [line |-> pos, year |-> t.year, month |-> t.month,
                     day |-> t.day, hour |-> t.hour, minute |-> t.minute]
          /\ IF ms # None
             THEN /\ times' = Append(times, Unwrap(ms))
                  /\ cols' = PushFields(variant, header_cols, toks, cols)
                  /\ row_line' = Append(row_line, pos)
             ELSE UNCHANGED <<times, cols, row_line>>
    /\ pos' = pos + 1
    /\ UNCHANGED <<variant, text, p_pc, header_cols, result, first_row>>
    /\ UNCHANGED <<scan_vars, run_vars>>

\* lib.rs:240,284-295, main.rs:190,227-241  no line left: build the table
RowsEnd ==
    /\ p_pc = "rows"
    /\ pos > Len(text)
    /\ p_pc' = "done"
    /\ row' = NoRow
    /\ result' = BuildFrame(variant, times, cols)
    /\ UNCHANGED <<variant, text, pos, header_cols, times, cols, first_row,
                   row_line>>
    /\ UNCHANGED <<scan_vars, run_vars>>

ParseNext ==
    \/ SeekSkip
    \/ SeekHeader
    \/ SeekEnd
    \/ RowBlank
    \/ RowComment
    \/ RowShortLine
    \/ RowDecode
    \/ RowsEnd

\* ------------------------------------------------------------------------
\* The run: main of the CLI (main.rs), and fetch_and_save_station of both
\* variants
\* ------------------------------------------------------------------------
MaxStations == 2
MaxEvents == 2

sStationId == <<"s", "t", "a", "t", "i", "o", "n", "_", "i", "d">>
sLatitude == <<"l", "a", "t", "i", "t", "u", "d", "e">>
sLongitude == <<"l", "o", "n", "g", "i", "t", "u", "d", "e">>

\* the bodies a 200 response carries: empty, whitespace only, rows without a
\* header, a header without rows, one row, a row with hour 24, and two rows
\* with a blank and a short line between them and a comment line after them
RunFeeds ==
    {<< >>,
     <<LineBlank>>,
     <<LineUnits, RowExample>>,
     <<LineHeader, LineUnits>>,
     <<LineHeader, LineUnits, RowExample>>,
     <<LineHeader, RowHour24>>,
     <<LineHeader, LineUnits, RowExample, LineBlank, RowShort, RowLeapDay, LineUnits>>}

\* what client.get(url).send() and the reading of the body can give
Responses ==
    {[kind |-> k, text |-> << >>] : k \in {"send_err", "404", "status_err"}}
        \cup {[kind |-> "200", text |-> t] : t \in RunFeeds}

\* lib.rs:123, main.rs:125  text.trim().is_empty()
IsBlankText(txt) ==
    \A i \in 1..Len(txt) : ~txt[i].hash /\ Len(txt[i].toks) = 0

\* lib.rs:118-125, main.rs:120-127  the error returned before the parse, None
\* when the parse is reached
EarlyReturn(resp) ==
    IF resp.kind = "send_err" THEN Some("request failed")
    ELSE IF resp.kind = "404" THEN Some("data unavailable (404)")
    ELSE IF resp.kind = "status_err" THEN Some("http status error")
    ELSE IF IsBlankText(resp.text) THEN Some("empty data")
    ELSE None

\* a height test that lets every table pass
HeightCheckOff(df) == None

\* lib.rs:130-132, main.rs:131-133  df.height() == 0
HeightCheck(df) ==
    IF Len(df.time) = 0 THEN Some("no standard met rows found") ELSE None

Repeat(x, n) == [i \in 1..n |-> x]

\* a position that defaults to 0.0, 0.0
PositionOfZeroDefault(meta, station) ==
    IF station \in DOMAIN meta /\ meta[station] # None
    THEN <<Some(Unwrap(meta[station])[1]), Some(Unwrap(meta[station])[2])>>
    ELSE <<Some(F64(0, 0)), Some(F64(0, 0))>>

\* lib.rs:138-143  (lat_opt, lon_opt)
PositionOf(meta, station) ==
    IF station \in DOMAIN meta /\ meta[station] # None
    THEN <<Some(Unwrap(meta[station])[1]), Some(Unwrap(meta[station])[2])>>
    ELSE <<None, None>>

\* lib.rs:152, main.rs:138  df.hstack(series): fails on a duplicate name or on
\* a series as long as the table is not high
Hstack(df, series) ==
    IF \/ \E i \in 1..Len(series) : Len(series[i].vals) # Len(df.time)
       \/ \E i \in 1..Len(series) : \E j \in 1..Len(df.names) :
              series[i].name = df.names[j]
       \/ \E i, j \in 1..Len(series) : i # j /\ series[i].name = series[j].name
    THEN ErrFrame
    ELSE [df EXCEPT !.names = @ \o [i \in 1..Len(series) |-> series[i].name],
                    !.data = @ \o [i \in 1..Len(series) |-> series[i].vals]]

\* lib.rs:134-152, main.rs:135-138  the table with the constant columns
Enrich(v, df, meta, station) ==
    LET h == Len(df.time)
        p == PositionOf(meta, station)
        sid == [name |-> sStationId, vals |-> Repeat(station, h)]
        lat == [name |-> sLatitude, vals |-> Repeat(p[1], h)]
        lon == [name |-> sLongitude, vals |-> Repeat(p[2], h)]
    IN IF v = "lib" THEN Hstack(df, <<sid, lat, lon>>) ELSE Hstack(df, <<sid>>)

\* lib.rs:127-158, main.rs:129-144  what the call returns once the parse has
\* returned df; io is what File::create and the writer do
SaveReturn(v, df, meta, station, io) ==
    IF df.status = "Err" THEN "parse error"
    ELSE IF HeightCheck(df) # None THEN Unwrap(HeightCheck(df))
    ELSE IF Enrich(v, df, meta, station).status = "Err" THEN "hstack error"
    ELSE IF io = "create_fails" THEN "create error"
    ELSE IF io = "write_fails" THEN "write error"
    ELSE "Ok"

\* a file left by an earlier run
OldFile ==
    [status |-> "Ok", names |-> <<sTimeMs, sStationId>>,
     time |-> <<[days |-> 0, ms |-> 0]>>, data |-> <<<<"old">>>>]

\* lib.rs:156-157, main.rs:142-143  a file that File::create has opened and
\* the writer has not finished
TruncatedFile == [status |-> "Truncated", names |-> << >>, time |-> << >>, data |-> << >>]

\* a loop that ends at the first failed station
AfterStationStopsOnErr(res) == IF res = "Ok" THEN "loop" ELSE "failed"

\* main.rs:42-52  the for loop goes on whatever the call returned
AfterStation(res) == "loop"

\* a `?` that lets a failed metadata check pass
AfterMetadataIgnoresErr(res) == "loop"

\* main.rs:35  fetch_station_metadata().await?
AfterMetadata(res) == IF res = "Ok" THEN "loop" ELSE "failed"

\* main.rs:113  if !ok
MetaReturn(ok) == IF ok THEN "Ok" ELSE "unexpected station metadata content"

\* main.rs:43-51  the arms of the match: count the success or record the
\* failure (a caller of the library only gets the result)
Returned(res) ==
    /\ fs_result' = res
    /\ fs_pc' = "idle"
    /\ station_idx' = station_idx + 1
    /\ successes' = IF variant = "cli" /\ res = "Ok" THEN successes + 1 ELSE successes
    /\ failures' = IF variant = "cli" /\ res # "Ok"
                   THEN Append(failures, <<stations[station_idx], res>>)
                   ELSE failures
    /\ run_pc' = AfterStation(res)
    /\ run_result' = IF AfterStation(res) = "failed" THEN res ELSE run_result

NoResponse == [kind |-> "none", text |-> << >>]

\* no run
RunIdle ==
    /\ run_pc = "idle"
    /\ stations = << >>
    /\ station_idx = 1
    /\ successes = 0
    /\ failures = << >>
    /\ run_result = "none"
    /\ meta_events = 0
    /\ fs_pc = "idle"
    /\ fs_result = "none"
    /\ files = [k \in StationIds |-> None]
    /\ attempts = << >>
    /\ files_before = [k \in StationIds |-> None]
    /\ meta_ok = FALSE
    /\ created = << >>
    /\ response = NoResponse

\* the locals of a parse that is not running
ParseLocalsIdle ==
    /\ text = << >>
    /\ p_pc = "idle"
    /\ pos = 1
    /\ header_cols = << >>
    /\ times = << >>
    /\ cols = EmptyCols
    /\ row = NoRow
    /\ result = [status |-> "none", names |-> << >>, time |-> << >>, data |-> << >>]
    /\ first_row = 0
    /\ row_line = << >>

\* the mappings a caller of the library may hold: each station without an
\* entry or with the position of a met="y" entry
LibMetas ==
    [StationIds ->
        {PickAfterHistory(None, [met |-> Some("y"), stop |-> None, ll |-> v]) :
            v \in {<<Some(<<"1">>), Some(<<"2">>)>>, <<None, Some(<<"x">>)>>}}]

\* main.rs:27-30 (CLI), lib.rs:25-32 (library caller)
RunInit ==
    /\ variant \in Variants
    /\ stations \in UNION {[1..n -> StationIds] : n \in 1..MaxStations}
    /\ files \in [StationIds -> {None, Some(OldFile)}]
    /\ files_before = files
    /\ IF variant = "lib" THEN station_meta \in LibMetas
       ELSE station_meta = [k \in StationIds |-> None]
    /\ scan_pc = "idle"
    /\ scan_result = IF Keys(station_meta) = {} THEN "none" ELSE "Ok"
    /\ calls = IF Keys(station_meta) = {} THEN 0 ELSE 1
    /\ open = << >>
    /\ in_stations = FALSE
    /\ current_station_id = None
    /\ picked_lat_lon = None
    /\ cur = NoStation
    /\ closed = NoStation
    /\ qualified = Keys(station_meta)
    /\ doc_qualifies = (Keys(station_meta) # {})
    /\ picked_in = "none"
    /\ ParseLocalsIdle
    /\ run_pc = IF variant = "cli" THEN "start" ELSE "loop"
    /\ station_idx = 1
    /\ successes = 0
    /\ failures = << >>
    /\ run_result = "none"
    /\ meta_events = 0
    /\ fs_pc = "idle"
    /\ fs_result = "none"
    /\ attempts = << >>
    /\ meta_ok = FALSE
    /\ created = << >>
    /\ response = NoResponse

\* main.rs:32  ensure_data_dir(&args.out_dir)?
MainEnsureDir ==
    /\ run_pc = "start"
    /\ \E ok \in BOOLEAN :
          /\ run_pc' = IF ok THEN "meta" ELSE "failed"
          /\ run_result' = IF ok THEN run_result ELSE "data dir error"
    /\ UNCHANGED <<stations, station_idx, successes, failures, meta_events, fs_pc,
                   fs_result, files, attempts, files_before, meta_ok, created,
                   response>>
    /\ UNCHANGED <<scan_vars, parse_vars>>

\* main.rs:93-101  the download of the metadata document
MetaDownload ==
    /\ run_pc = "meta"
    /\ \E ok \in BOOLEAN :
          /\ run_pc' = IF ok THEN "meta_loop" ELSE AfterMetadata("http error")
          /\ run_result' = IF ok \/ AfterMetadata("http error") # "failed"
                           THEN run_result ELSE "http error"
    /\ UNCHANGED <<stations, station_idx, successes, failures, meta_events, fs_pc,
                   fs_result, files, attempts, files_before, meta_ok, created,
                   response>>
    /\ UNCHANGED <<scan_vars, parse_vars>>

\* main.rs:103-105,110  an event that is not a stations open tag
MetaSkipEvent ==
    /\ run_pc = "meta_loop"
    /\ meta_events < MaxEvents
    /\ meta_events' = meta_events + 1
    /\ UNCHANGED <<run_pc, stations, station_idx, successes, failures, run_result,
                   fs_pc, fs_result, files, attempts, files_before, meta_ok,
                   created, response>>
    /\ UNCHANGED <<scan_vars, parse_vars>>

\* main.rs:104-106,113-115,35-40  <stations>: the check returns Ok and main
\* sets up the loop (the client is built from a constant user agent)
MetaStartStations ==
    /\ run_pc = "meta_loop"
    /\ run_pc' = AfterMetadata(MetaReturn(TRUE))
    /\ meta_ok' = TRUE
    /\ meta_events' = 0
    /\ UNCHANGED <<stations, station_idx, successes, failures, run_result, fs_pc,
                   fs_result, files, attempts, files_before, created, response>>
    /\ UNCHANGED <<scan_vars, parse_vars>>

\* main.rs:108,113  end of input before any stations open tag
MetaEof ==
    /\ run_pc = "meta_loop"
    /\ run_pc' = AfterMetadata(MetaReturn(FALSE))
    /\ run_result' = IF AfterMetadata(MetaReturn(FALSE)) = "failed"
                     THEN MetaReturn(FALSE) ELSE run_result
    /\ meta_events' = 0
    /\ UNCHANGED <<stations, station_idx, successes, failures, fs_pc, fs_result,
                   files, attempts, files_before, meta_ok, created, response>>
    /\ UNCHANGED <<scan_vars, parse_vars>>

\* main.rs:109  unparsable markup
MetaReadErr ==
    /\ run_pc = "meta_loop"
    /\ run_pc' = AfterMetadata("station metadata parse error")
    /\ run_result' = IF AfterMetadata("station metadata parse error") = "failed"
                     THEN "station metadata parse error" ELSE run_result
    /\ meta_events' = 0
    /\ UNCHANGED <<stations, station_idx, successes, failures, fs_pc, fs_result,
                   files, attempts, files_before, meta_ok, created, response>>
    /\ UNCHANGED <<scan_vars, parse_vars>>

\* lib.rs:115-125, main.rs:117-127,42-52  a call that returns before the parse
FetchReturnsEarly ==
    /\ run_pc = "loop" /\ fs_pc = "idle"
    /\ station_idx <= Len(stations)
    /\ \E resp \in Responses :
          /\ EarlyReturn(resp) # None
          /\ Returned(Unwrap(EarlyReturn(resp)))
          /\ response' = resp
    /\ attempts' = Append(attempts, stations[station_idx])
    /\ files_before' = files
    /\ UNCHANGED <<stations, meta_events, files, meta_ok, created>>
    /\ UNCHANGED <<scan_vars, parse_vars>>

\* lib.rs:115-128, main.rs:117-129  a call that reaches parse_std_met_to_df
FetchParses ==
    /\ run_pc = "loop" /\ fs_pc = "idle"
    /\ station_idx <= Len(stations)
    /\ \E resp \in Responses :
          /\ EarlyReturn(resp) = None
          /\ text' = resp.text
          /\ response' = resp
    /\ fs_pc' = "parsing"
    /\ p_pc' = "seek"
    /\ pos' = 1
    /\ header_cols' = << >>
    /\ times' = << >>
    /\ cols' = EmptyCols
    /\ row' = NoRow
    /\ result' = [status |-> "none", names |-> << >>, time |-> << >>, data |-> << >>]
    /\ first_row' = 0
    /\ row_line' = << >>
    /\ attempts' = Append(attempts, stations[station_idx])
    /\ files_before' = files
    /\ UNCHANGED <<run_pc, stations, station_idx, successes, failures, run_result,
                   meta_events, fs_result, files, meta_ok, created>>
    /\ UNCHANGED <<scan_vars, variant>>

\* lib.rs:127-158, main.rs:129-144,42-52  the parse has returned: test the
\* height, add the columns, write the file, return
SaveAndReturn ==
    /\ run_pc = "loop" /\ fs_pc = "parsing"
    /\ p_pc = "done"
    /\ \E io \in {"ok", "create_fails", "write_fails"} :
          LET station == stations[station_idx]
              res == SaveReturn(variant, result, station_meta, station, io)
          IN /\ files' = IF res = "Ok"
                         THEN [files EXCEPT ![station] =
                                  Some(Enrich(variant, result, station_meta, station))]
                         ELSE IF res = "write error"
                         THEN [files EXCEPT ![station] = Some(TruncatedFile)]
                         ELSE files
             /\ created' = IF res \in {"Ok", "write error"}
                           THEN Append(created, station) ELSE created
             /\ Returned(res)
    /\ text' = << >>
    /\ p_pc' = "idle"
    /\ pos' = 1
    /\ header_cols' = << >>
    /\ times' = << >>
    /\ cols' = EmptyCols
    /\ row' = NoRow
    /\ result' = [status |-> "none", names |-> << >>, time |-> << >>, data |-> << >>]
    /\ first_row' = 0
    /\ row_line' = << >>
    /\ UNCHANGED <<stations, meta_events, attempts, files_before, meta_ok,
                   response>>
    /\ UNCHANGED <<scan_vars, variant>>

\* main.rs:54-61  the loop is over: report and return Ok
MainDone ==
    /\ run_pc = "loop" /\ fs_pc = "idle"
    /\ station_idx > Len(stations)
    /\ run_pc' = "done"
    /\ run_result' = "Ok"
    /\ UNCHANGED <<stations, station_idx, successes, failures, meta_events, fs_pc,
                   fs_result, files, attempts, files_before, meta_ok, created,
                   response>>
    /\ UNCHANGED <<scan_vars, parse_vars>>

RunNext ==
    \/ MainEnsureDir
    \/ MetaDownload
    \/ MetaSkipEvent
    \/ MetaStartStations
    \/ MetaEof
    \/ MetaReadErr
    \/ FetchReturnsEarly
    \/ FetchParses
    \/ SeekSkip
    \/ SeekHeader
    \/ SeekEnd
    \/ RowBlank
    \/ RowComment
    \/ RowShortLine
    \/ RowDecode
    \/ RowsEnd
    \/ SaveAndReturn
    \/ MainDone

\* ------------------------------------------------------------------------
\* Specifications: the scanner alone, and the parser alone
\* ------------------------------------------------------------------------
\* no parse is running
ParseIdle ==
    /\ variant = "lib"
    /\ text = << >>
    /\ p_pc = "idle"
    /\ pos = 1
    /\ header_cols = << >>
    /\ times = << >>
    /\ cols = EmptyCols
    /\ row = NoRow
    /\ result = [status |-> "none", names |-> << >>, time |-> << >>, data |-> << >>]
    /\ first_row = 0
    /\ row_line = << >>

\* a fresh NdbcData, no parse running
ScanSpecInit == ScanInit /\ ParseIdle /\ RunIdle

\* a parse of any feed of the model by either variant, on a fresh NdbcData
ParseSpecInit == ScanInit /\ ParseInit /\ RunIdle

ScanSpec == ScanSpecInit /\ [][ScanNext]_vars

ParseSpec == ParseSpecInit /\ [][ParseNext]_vars

\* ------------------------------------------------------------------------
\* The parser on feeds that open with the header line: the data block
\* ------------------------------------------------------------------------
MaxBody == 4

\* the lines that follow the header: a comment, a blank line, rows, a short
\* line, a second header, a row with hour 24
BodyVocab ==
    {LineUnits, LineBlank, RowExample, RowLeapDay, RowShort, RowHour24, LineHeaderTide}

BlockFeeds ==
    {<<LineHeader>> \o b : b \in UNION {[1..n -> BodyVocab] : n \in 0..MaxBody}}

\* a parse of a feed whose first line is the header, by either variant
BlockSpecInit ==
    /\ ScanInit
    /\ RunIdle
    /\ variant \in Variants
    /\ text \in BlockFeeds
    /\ p_pc = "seek"
    /\ pos = 1
    /\ header_cols = << >>
    /\ times = << >>
    /\ cols = EmptyCols
    /\ row = NoRow
    /\ result = [status |-> "none", names |-> << >>, time |-> << >>, data |-> << >>]
    /\ first_row = 0
    /\ row_line = << >>

\* the header is the first line, so the header loop takes one step, SeekHeader
BlockNext ==
    \/ SeekHeader
    \/ RowBlank
    \/ RowComment
    \/ RowShortLine
    \/ RowDecode
    \/ RowsEnd

BlockSpec == BlockSpecInit /\ [][BlockNext]_vars

\* ------------------------------------------------------------------------
\* A run of the CLI, or a caller of the library that calls
\* fetch_and_save_station for each station of a list
\* ------------------------------------------------------------------------
RunSpecInit == RunInit

RunSpec == RunSpecInit /\ [][RunNext]_vars

\* ------------------------------------------------------------------------
\* Scanner claims
\* ------------------------------------------------------------------------
\* C1: a station element (inside the stations container, with an id) that
\* has just been closed and contained a met="y" history entry with numeric
\* lat/lng and an absent or empty stop marker is stored with the position of
\* the last such entry in document order.
C1_ActivePreferred ==
    (closed.open /\ closed.id # None /\ closed.lastActive # None)
        => station_meta[closed.id[1]] = closed.lastActive

\* C2: a station element that has just been closed and contained met="y"
\* entries with numeric lat/lng, none of them currently active, is stored
\* with the position of the first such entry in document order.
C2_FallbackFirst ==
    (closed.open /\ closed.id # None /\ closed.lastActive = None
        /\ closed.firstMet # None)
        => station_meta[closed.id[1]] = closed.firstMet

\* C3: every key of the station -> position mapping is the id of a station
\* element that contained at least one history entry with met="y" and a
\* numeric lat/lng pair.
C3_KeysQualified == Keys(station_meta) \subseteq qualified

\* a station with an id and history entries, none of them met="y" with a
\* position, was closed and is not in the non-empty mapping
C3_Witness ==
    /\ closed.open /\ closed.id # None /\ closed.entries
    /\ closed.firstMet = None
    /\ Keys(station_meta) # {}
    /\ closed.id[1] \notin Keys(station_meta)

\* C4: a call whose document yields no qualifying station (no station element
\* with an id and a met-enabled position) does not return Ok.
C4_EmptyIsError ==
    (scan_pc = "idle" /\ calls > 0 /\ scan_result # "ErrParse" /\ ~doc_qualifies)
        => scan_result = "ErrNoStations"

\* ------------------------------------------------------------------------
\* Parser claims: the feed and the calendar as the specification words them
\* ------------------------------------------------------------------------
\* a line matches the header pattern: a comment line of at least 5 tokens,
\* the first ending in "YY", then "MM" and "DD"
MatchesHeaderPattern(line) ==
    /\ line.hash
    /\ Len(line.toks) >= 5
    /\ LET t == line.toks[1]
       IN Len(t) >= 2 /\ t[Len(t) - 1] = "Y" /\ t[Len(t)] = "Y"
    /\ line.toks[2] = <<"M", "M">>
    /\ line.toks[3] = <<"D", "D">>

HeaderFound == \E i \in 1..Len(text) : MatchesHeaderPattern(text[i])

HeaderIndex ==
    CHOOSE i \in 1..Len(text) :
        MatchesHeaderPattern(text[i]) /\ \A j \in 1..(i - 1) : ~MatchesHeaderPattern(text[j])

HeaderNames == text[HeaderIndex].toks

\* the fourteen recognized fields in canonical order
CanonicalFields ==
    <<<<"W", "D", "I", "R">>, <<"W", "S", "P", "D">>, <<"G", "S", "T">>, <<"W", "V", "H", "T">>,
      <<"D", "P", "D">>, <<"A", "P", "D">>, <<"M", "W", "D">>, <<"P", "R", "E", "S">>,
      <<"A", "T", "M", "P">>, <<"W", "T", "M", "P">>, <<"D", "E", "W", "P">>, <<"V", "I", "S">>,
      <<"P", "T", "D", "Y">>, <<"T", "I", "D", "E">>>>

\* the data lines with at least 5 tokens that the data loop has read
RowsRead ==
    {k \in 1..Len(text) : /\ first_row > 0 /\ k >= first_row /\ k < pos
                          /\ ~text[k].hash /\ Len(text[k].toks) >= 5}

Emitted(k) == \E i \in 1..Len(row_line) : row_line[i] = k

RECURSIVE StripZeros(_)
StripZeros(s) == IF Len(s) > 1 /\ s[1] = "0" THEN StripZeros(Tail1(s)) ELSE s

\* the decimal numeral of a natural number
RECURSIVE Numeral(_)
Numeral(n) ==
    LET d == <<"0", "1", "2", "3", "4", "5", "6", "7", "8", "9">>[(n % 10) + 1]
    IN IF n < 10 THEN <<d>> ELSE Append(Numeral(n \div 10), d)

\* a token that is a natural number of at most 4 digits, and its value
SmallNat(t) == AllDigits(t) /\ Len(t) <= 4
Val(t) == DigitsVal(t)

YearTokenOk(t) == SmallNat(t) /\ (Val(t) <= 99 \/ Val(t) >= 1000)
YearOf(t) == IF Val(t) <= 99 THEN 2000 + Val(t) ELSE Val(t)

LeapYear(y) == IF y % 400 = 0 THEN TRUE ELSE IF y % 100 = 0 THEN FALSE ELSE y % 4 = 0
MonthLengths(y) ==
    <<31, IF LeapYear(y) THEN 29 ELSE 28, 31, 30, 31, 30, 31, 31, 30, 31, 30, 31>>
RECURSIVE DaysBeforeMonth(_, _)
DaysBeforeMonth(y, m) ==
    IF m = 1 THEN 0 ELSE DaysBeforeMonth(y, m - 1) + MonthLengths(y)[m - 1]
\* leap years among the years 1 .. y-1
LeapsBefore(y) == (y - 1) \div 4 - (y - 1) \div 100 + (y - 1) \div 400
DaysSinceEpoch(y, m, d) ==
    365 * (y - 1970) + LeapsBefore(y) - LeapsBefore(1970) + DaysBeforeMonth(y, m) + d - 1

MonthOk(toks) == SmallNat(toks[2]) /\ Val(toks[2]) >= 1 /\ Val(toks[2]) <= 12
DayOk(toks) ==
    /\ SmallNat(toks[3]) /\ Val(toks[3]) >= 1
    /\ Val(toks[3]) <= MonthLengths(YearOf(toks[1]))[Val(toks[2])]
HourOk(toks) == SmallNat(toks[4]) /\ Val(toks[4]) <= 23
MinuteOk(toks) == SmallNat(toks[5]) /\ Val(toks[5]) <= 59

\* the five date/time tokens are valid
ValidDateTime(toks) ==
    YearTokenOk(toks[1]) /\ MonthOk(toks) /\ DayOk(toks) /\ HourOk(toks) /\ MinuteOk(toks)

\* the tokens are numbers, and month, day, hour or minute is out of range
OutOfRange(toks) ==
    /\ YearTokenOk(toks[1])
    /\ \A i \in 2..5 : SmallNat(toks[i])
    /\ \/ ~MonthOk(toks)
       \/ MonthOk(toks) /\ ~DayOk(toks)
       \/ ~HourOk(toks)
       \/ ~MinuteOk(toks)

\* the UTC instant of the tokens, second 0, no sub-second part, as day count
\* and milliseconds within the day
InstantOf(toks) ==
    [days |-> DaysSinceEpoch(YearOf(toks[1]), Val(toks[2]), Val(toks[3])),
     ms |-> (Val(toks[4]) * 60 + Val(toks[5])) * 60000]

\* position (1-based) of a name in the header, 0 if the header omits it
NamedAt(name) ==
    IF \E i \in 1..Len(HeaderNames) : HeaderNames[i] = name
    THEN CHOOSE i \in 1..Len(HeaderNames) : HeaderNames[i] = name
    ELSE 0

\* the token of line k under the header's column of field j, None if the
\* header omits the field or the line is too short
TokenOf(k, j) ==
    LET i == NamedAt(CanonicalFields[j])
    IN IF i = 0 \/ i > Len(text[k].toks) THEN None ELSE Some(text[k].toks[i])

IsSentinel(t) == t = <<"M", "M">> \/ t = <<"N", "a", "N">>

PlainDecimal(t) ==
    /\ Len(t) > 0
    /\ \A i \in 1..Len(t) : t[i] \in Digits \cup {"."}
    /\ Cardinality({i \in 1..Len(t) : t[i] = "."}) <= 1
    /\ \E i \in 1..Len(t) : t[i] \in Digits

ExampleFeed == <<LineHeader, LineUnits, RowExample>>

\* C5: when no line of the feed matches the header pattern, the parse returns
\* successfully with a table of zero rows.
C5_NoHeaderEmptyTable ==
    (p_pc = "done" /\ ~HeaderFound)
        => (result.status = "Ok" /\ Len(result.time) = 0
            /\ \A j \in 1..Len(result.data) : Len(result.data[j]) = 0)

\* a finished parse of a feed without header that holds a comment line and a
\* data row
C5_Witness ==
    /\ p_pc = "done" /\ ~HeaderFound
    /\ \E i \in 1..Len(text) : text[i].hash
    /\ \E i \in 1..Len(text) : ~text[i].hash /\ Len(text[i].toks) >= 5
    /\ result.status = "Ok"

\* C6: every data row read with valid date/time tokens has exactly one row in
\* the table; its time is the UTC instant of (decoded year, month, day, hour,
\* minute, second 0); each recognized field the header names holds the number
\* at the header's index of that name; and the example feed gives one row at
\* 2023-01-15T06:30:00Z (day 19372 after the epoch, 23400000 ms into the
\* day: 1673764200000 ms) with WDIR 180.0, WSPD 12.3, the twelve others absent.
C6_RowDecoding ==
    /\ \A k \in RowsRead :
          ValidDateTime(text[k].toks)
              => /\ Cardinality({i \in 1..Len(row_line) : row_line[i] = k}) = 1
                 /\ \A i \in 1..Len(row_line) :
                       row_line[i] = k
                           => /\ times[i] = InstantOf(text[k].toks)
                              /\ \A j \in 1..14 :
                                    (TokenOf(k, j) # None /\ PlainDecimal(TokenOf(k, j)[1]))
                                        => cols[j][i] = ParseF64(TokenOf(k, j)[1])
    /\ p_pc = "done" /\ HeaderFound
          => /\ result.status = "Ok" /\ result.time = times /\ result.data = cols
    /\ (p_pc = "done" /\ text = ExampleFeed)
          => /\ result.time = <<[days |-> 19372, ms |-> 23400000]>>
             /\ result.data[1] = <<Some([kind |-> "num", m |-> 180, e |-> 0])>>
             /\ result.data[2] = <<Some([kind |-> "num", m |-> 123, e |-> 1])>>
             /\ \A j \in 3..14 : result.data[j] = <<None>>

\* the example feed has been parsed
C6_Witness ==
    /\ p_pc = "done" /\ text = ExampleFeed
    /\ Len(result.time) = 1 /\ row_line = <<3>>

\* the numeral t (no leading zero) is at most 2147483647, the largest i32
FitsI32(t) ==
    \/ Len(t) < 10
    \/ /\ Len(t) = 10
       /\ LET lim == <<"2", "1", "4", "7", "4", "8", "3", "6", "4", "7">>
          IN \/ t = lim
             \/ \E i \in 1..10 :
                   /\ \A j \in 1..(i - 1) : t[j] = lim[j]
                   /\ DigitVal(t[i]) < DigitVal(lim[i])

C8_InvalidRowSkipped ==
    \A k \in RowsRead : OutOfRange(text[k].toks) => ~Emitted(k)

\* C9 as claimed: in both variants, a recognized field whose token is "MM" or
\* "NaN" is absent in that row.
C9_SentinelAbsentBothVariants ==
    \A i \in 1..Len(row_line) : \A j \in 1..14 :
        LET tok == TokenOf(row_line[i], j)
        IN (HeaderFound /\ tok # None /\ IsSentinel(tok[1])) => cols[j][i] = None

\* C9 amended: a recognized field whose token is "MM" (either variant) or
\* "NaN" (library variant) is absent in that row.
C9_SentinelAbsent ==
    \A i \in 1..Len(row_line) : \A j \in 1..14 :
        LET tok == TokenOf(row_line[i], j)
        IN (HeaderFound /\ tok # None
              /\ (tok[1] = <<"M", "M">> \/ (variant = "lib" /\ tok[1] = <<"N", "a", "N">>)))
           => cols[j][i] = None

\* the library variant has emitted a row with a "NaN" token under a
\* recognized field
C9_Witness ==
    /\ variant = "lib" /\ HeaderFound
    /\ \E i \in 1..Len(row_line) : \E j \in 1..14 :
          /\ TokenOf(row_line[i], j) = Some(<<"N", "a", "N">>)
          /\ cols[j][i] = None

UpperChar(c) ==
    IF \E i \in 1..26 : Lower[i] = c THEN Upper[CHOOSE i \in 1..26 : Lower[i] = c] ELSE c
UpperCase(s) == [i \in 1..Len(s) |-> UpperChar(s[i])]

\* C10: when a header is found the table has 15 columns, the time column
\* first, then the fourteen recognized fields in canonical order (names
\* compared without case); all columns have the height of the table; and a
\* field the header omits is absent in every row.
C10_StableSchema ==
    (p_pc = "done" /\ HeaderFound)
        => /\ result.status = "Ok"
           /\ Len(result.names) = 15
           /\ UpperCase(result.names[1]) = <<"T", "I", "M", "E", "_", "M", "S">>
           /\ \A j \in 1..14 : UpperCase(result.names[j + 1]) = CanonicalFields[j]
           /\ Len(result.data) = 14
           /\ \A j \in 1..14 :
                 /\ Len(result.data[j]) = Len(result.time)
                 /\ NamedAt(CanonicalFields[j]) = 0
                       => \A i \in 1..Len(result.data[j]) : result.data[j][i] = None

\* a table with a row, built under the header that lists TIDE before WDIR and
\* omits WSPD
C10_Witness ==
    /\ p_pc = "done" /\ HeaderFound
    /\ HeaderNames = LineHeaderTide.toks
    /\ Len(result.time) >= 1
    /\ result.status = "Ok"

\* ------------------------------------------------------------------------
\* Claims on the data block
\* ------------------------------------------------------------------------
\* the non-comment lines with one to four tokens that the data loop has read
ShortRead ==
    {k \in 1..Len(text) : /\ first_row > 0 /\ k >= first_row /\ k < pos
                          /\ ~text[k].hash
                          /\ Len(text[k].toks) > 0 /\ Len(text[k].toks) < 5}

\* the first comment line at or after the first data line, 0 if there is none
FirstComment ==
    IF first_row > 0 /\ \E c \in first_row..Len(text) : text[c].hash
    THEN CHOOSE c \in first_row..Len(text) :
             text[c].hash /\ \A d \in first_row..(c - 1) : ~text[d].hash
    ELSE 0

\* C11: a data line with fewer than 5 tokens that the data loop has read has
\* no row in the table, the time column and every field column hold at most
\* one entry per line read with 5 or more tokens, the parse has not ended
\* unless a comment line or the end of the feed was read, and every row with
\* valid date/time tokens read after the short line is in the table.
C11_ShortLineSkipped ==
    /\ \A k \in ShortRead : ~Emitted(k)
    /\ ShortRead # {} =>
          /\ Len(times) <= Cardinality(RowsRead)
          /\ \A j \in 1..Len(cols) : Len(cols[j]) <= Cardinality(RowsRead)
          /\ p_pc = "done" => (pos > Len(text) \/ pos - 1 = FirstComment)
          /\ \A k \in ShortRead : \A r \in RowsRead :
                 (r > k /\ ValidDateTime(text[r].toks)) => Emitted(r)

\* a short line has been read and a later valid row is in the table
C11_Witness ==
    \E k \in ShortRead : \E r \in RowsRead :
        r > k /\ ValidDateTime(text[r].toks) /\ Emitted(r) /\ Len(times) >= 1

C17_UnitsLine ==
    first_row > 0 =>
        LET n == HeaderIndex + 1
            units == n <= Len(text) /\ text[n].hash
        IN /\ units => first_row = n + 1
           /\ ~units => first_row = n
           /\ (pos = first_row /\ first_row <= Len(text)) => p_pc = "rows"
           /\ (/\ first_row <= Len(text) /\ pos > first_row
               /\ ~text[first_row].hash /\ Len(text[first_row].toks) >= 5
               /\ ValidDateTime(text[first_row].toks))
                 => (Len(row_line) >= 1 /\ row_line[1] = first_row)
           /\ (first_row <= Len(text) /\ pos > first_row /\ text[first_row].hash)
                 => (p_pc = "done" /\ times = << >>)

\* a units line was discarded and the row after it is the first of the table
C17_Witness ==
    /\ first_row > 0
    /\ HeaderIndex + 1 <= Len(text)
    /\ text[HeaderIndex + 1].hash
    /\ first_row = HeaderIndex + 2
    /\ Len(row_line) >= 1 /\ row_line[1] = first_row

\* the blank lines that the data loop has read
BlankRead ==
    {k \in 1..Len(text) : /\ first_row > 0 /\ k >= first_row /\ k < pos
                          /\ ~text[k].hash /\ Len(text[k].toks) = 0}

\* C18: once rows are being captured, no line after the first comment line
\* has a row in the table and nothing is read after that comment line; the
\* capture ends only at that comment line or at the end of the feed, so a
\* blank line does not end it: every row with valid date/time tokens read
\* after a blank line is in the table.
C18_SingleDataBlock ==
    first_row > 0 =>
        /\ FirstComment > 0 =>
              /\ \A i \in 1..Len(row_line) : row_line[i] < FirstComment
              /\ pos <= FirstComment + 1
              /\ pos = FirstComment + 1 => p_pc = "done"
        /\ p_pc = "done" => (pos > Len(text) \/ pos = FirstComment + 1)
        /\ \A b \in BlankRead : \A r \in RowsRead :
              (r > b /\ ValidDateTime(text[r].toks)) => Emitted(r)

\* the capture has ended at a comment line that a valid row follows, after a
\* blank line and a row that is in the table
C18_Witness ==
    /\ p_pc = "done" /\ FirstComment > 0 /\ FirstComment < Len(text)
    /\ LET r == text[FirstComment + 1]
       IN ~r.hash /\ Len(r.toks) >= 5 /\ ValidDateTime(r.toks)
    /\ \E b \in BlankRead : \E k \in RowsRead : k > b /\ Emitted(k)

\* C20: after any prefix of the data lines, the time vector and each of the
\* 14 field vectors have the same length, one entry per accepted line; the
\* accepted lines are lines read with 5 or more tokens, in feed order, and
\* the i-th entry of every vector is decoded from the i-th accepted line;
\* the table is built without error and has that many rows in every column.
C20_RowAlignment ==
    /\ Len(cols) = 14
    /\ \A j \in 1..14 : Len(cols[j]) = Len(times)
    /\ Len(row_line) = Len(times)
    /\ \A i \in 1..Len(row_line) : row_line[i] \in RowsRead
    /\ \A i, k \in 1..Len(row_line) : i < k => row_line[i] < row_line[k]
    /\ \A r \in RowsRead : ValidDateTime(text[r].toks) => Emitted(r)
    /\ \A i \in 1..Len(row_line) :
          LET toks == text[row_line[i]].toks
          IN /\ ValidDateTime(toks) => times[i] = InstantOf(toks)
             /\ \A j \in 1..14 :
                   LET tk == TokenOf(row_line[i], j)
                   IN /\ tk = None => cols[j][i] = None
                      /\ (tk # None /\ PlainDecimal(Unwrap(tk)))
                            => cols[j][i] = ParseF64(Unwrap(tk))
    /\ (p_pc = "done" /\ first_row > 0) =>
          /\ result.status = "Ok"
          /\ Len(result.time) = Len(times)
          /\ Len(result.data) = 14
          /\ \A j \in 1..14 : Len(result.data[j]) = Len(result.time)

\* a table of two rows has been built from two different accepted lines with
\* a line between them that has no row
C20_Witness ==
    /\ p_pc = "done" /\ result.status = "Ok"
    /\ Len(result.time) = 2
    /\ row_line[2] > row_line[1] + 1
    /\ text[row_line[1]] # text[row_line[2]]

\* ------------------------------------------------------------------------
\* Scanner claim: the stations container
\* ------------------------------------------------------------------------
\* C19: a step of the event loop taken before the stations container has
\* been opened changes neither the station id, nor the candidate position,
\* nor the mapping; and once the container has been opened and closed again,
\* no step changes the mapping.
C19_ContainerScoping ==
    [][/\ (scan_pc = "loop" /\ ~in_stations)
              => UNCHANGED <<current_station_id, picked_lat_lon, station_meta>>
       /\ (in_stations /\ (open = << >> \/ open[1] # "stations"))
              => UNCHANGED station_meta]_vars

\* in a second call, with a mapping that has a key, a history element inside
\* a station element has been read before any stations container was opened
C19_Witness ==
    /\ calls = 2 /\ scan_pc = "loop" /\ ~in_stations
    /\ open = <<"station", "history">>
    /\ current_station_id = None /\ picked_lat_lon = None
    /\ Keys(station_meta) # {}

C13_MetadataFirst ==
    variant = "cli" =>
        /\ (attempts # << >> \/ fs_pc # "idle" \/ p_pc # "idle" \/ created # << >>
            \/ station_idx > 1 \/ run_pc \in {"loop", "done"})
              => meta_ok
        /\ ~meta_ok => (files = files_before /\ successes = 0 /\ failures = << >>)
        /\ (run_pc \notin {"start", "meta", "meta_loop"} /\ ~meta_ok)
              => (/\ run_pc = "failed"
                  /\ run_result \notin {"Ok", "none"}
                  /\ attempts = << >> /\ created = << >>)

\* a run of the CLI for two stations, with a file of an earlier run in the
\* output directory, has ended because the metadata document held no
\* stations open tag
C13_Witness ==
    /\ variant = "cli" /\ run_pc = "failed"
    /\ run_result = "unexpected station metadata content"
    /\ Len(stations) = 2
    /\ \E k \in StationIds : files[k] = Some(OldFile)
    /\ attempts = << >>

\* C14: when fetch_and_save_station returns Ok, the file of the station holds
\* the parsed table (same time column, same field columns, same number of
\* rows) followed by a station_id column that holds the station argument on
\* every row and, in the library variant, a latitude and a longitude column
\* that hold on every row the station's position in the mapping, or no value
\* (and not 0.0) if the mapping has no entry for the station.
C14_Enrichment ==
    [][(fs_pc = "parsing" /\ fs_pc' = "idle" /\ fs_result' = "Ok")
          => LET s == stations[station_idx]
                 h == Len(result.time)
                 tbl == Unwrap(files'[s])
             IN /\ files'[s] # None
                /\ tbl.status = "Ok"
                /\ tbl.time = result.time
                /\ SubSeq(tbl.data, 1, 14) = result.data
                /\ SubSeq(tbl.names, 1, 15) = result.names
                /\ tbl.names[16] = sStationId
                /\ Len(tbl.data[15]) = h
                /\ \A i \in 1..h : tbl.data[15][i] = s
                /\ variant = "lib" =>
                      /\ Len(tbl.names) = 18 /\ Len(tbl.data) = 17
                      /\ tbl.names[17] = sLatitude /\ tbl.names[18] = sLongitude
                      /\ Len(tbl.data[16]) = h /\ Len(tbl.data[17]) = h
                      /\ \A i \in 1..h :
                            IF station_meta[s] # None
                            THEN /\ tbl.data[16][i] = Some(station_meta[s][1][1])
                                 /\ tbl.data[17][i] = Some(station_meta[s][1][2])
                            ELSE /\ tbl.data[16][i] = None
                                 /\ tbl.data[17][i] = None
                                 /\ tbl.data[16][i] # Some(F64(0, 0))
                                 /\ tbl.data[17][i] # Some(F64(0, 0))]_vars

\* the library variant has written the file of a station that has a position
\* in the mapping and the file of a station that has none
C14_Witness ==
    /\ variant = "lib" /\ fs_pc = "idle"
    /\ \E s, t \in StationIds :
          /\ station_meta[s] # None /\ station_meta[t] = None
          /\ files[s] # None /\ files[t] # None
          /\ Len(Unwrap(files[s]).data) = 17 /\ Len(Unwrap(files[t]).data) = 17
          /\ Len(Unwrap(files[s]).time) >= 1 /\ Len(Unwrap(files[t]).time) >= 1
          /\ Unwrap(files[s]).data[16][1] # None
          /\ Unwrap(files[t]).data[16][1] = None

\* C15: a call of fetch_and_save_station (either variant) that received an
\* empty or whitespace-only body, or whose parse returned a table of zero
\* rows, returns an error and leaves the output directory as it was; and the
\* output directory only changes in the step in which a parse that returned
\* at least one row is followed by the write.
C15_NoFileWithoutRows ==
    [][/\ (fs_pc = "idle" /\ station_idx' = station_idx + 1
           /\ response'.kind = "200" /\ IsBlankText(response'.text))
             => (fs_result' \notin {"Ok", "none"} /\ files' = files)
       /\ (fs_pc = "parsing" /\ fs_pc' = "idle" /\ Len(result.time) = 0)
             => (fs_result' \notin {"Ok", "none"} /\ files' = files)
       /\ files' # files
             => (fs_pc = "parsing" /\ p_pc = "done" /\ Len(result.time) >= 1)]_vars

\* a call whose parse found the header and no row has returned its error, and
\* the file an earlier run left for the station is still there
C15_Witness ==
    /\ fs_pc = "idle" /\ station_idx > 1
    /\ fs_result = "no standard met rows found"
    /\ response.text = <<LineHeader, LineUnits>>
    /\ files[stations[station_idx - 1]] = Some(OldFile)

\* ------------------------------------------------------------------------
\* Scanner claims: leakage between stations, and the form of an element
\* ------------------------------------------------------------------------
\* C21: the station id the scanner holds is the id of the station element
\* now open; while it holds an id, a candidate position it holds was set by a
\* history entry inside that station element; and the mapping changes only
\* when a station element is closed, only under that element's own id, and
\* only to a candidate set by an entry between that element's tags.
C21_NoLeakage ==
    [][/\ current_station_id # None
             => (cur.open /\ cur.id = current_station_id /\ Top \in {"station", "history"})
       /\ (current_station_id # None /\ picked_lat_lon # None)
             => (picked_in = "station" /\ cur.firstMet # None)
       /\ station_meta' # station_meta
             => /\ Top = "station" /\ open' = Pop
                /\ cur.open /\ cur.id # None /\ cur.id = current_station_id
                /\ picked_in = "station"
                /\ station_meta' = [station_meta EXCEPT ![Unwrap(cur.id)] = picked_lat_lon]]_vars

\* in a first call, after a station was stored, a history entry that lies
\* between two station elements has set a candidate position
C21_Witness ==
    /\ calls = 1 /\ scan_pc = "loop"
    /\ open = <<"stations", "history">>
    /\ picked_lat_lon # None /\ picked_in = "outside"
    /\ Keys(station_meta) # {}

\* C22: a station element (inside the stations container, with an id) that
\* has just been closed and contained, in either form, a met="y" history
\* entry with numeric lat/lng is stored with the position that the same
\* entries give when each is delivered as an open tag and a close tag: the
\* last currently active one, or the first one if none is active.
C22_FormIndependence ==
    (closed.open /\ closed.id # None /\ closed.firstMet # None)
        => station_meta[closed.id[1]] =
               (IF closed.lastActive # None THEN closed.lastActive ELSE closed.firstMet)

====
